---------------------------- MODULE Spec2Model ----------------------------
(***************************************************************************)
(* Model of smart-resume-builder (src/app/page.tsx): the keyword           *)
(* extractor, the ATS scorer and the general scorer of                     *)
(* ResumeAnalysisService, and the ResumeBuilder page with its editing,     *)
(* storage, sharing and analysis handlers; the public page                 *)
(* (src/app/resume/[shareId]/page.tsx) reads the shared localStorage.      *)
(*                                                                         *)
(* JavaScript strings are TLA+ strings (sequences of characters); a        *)
(* character is a string of length 1.  JavaScript arrays are sequences,    *)
(* indexed from 1 here and from 0 in the source.                           *)
(***************************************************************************)
EXTENDS Integers, Sequences, FiniteSets, TLC

VARIABLES
    text,           \* the argument of extractKeywords
    keywords,       \* what extractKeywords returned for it
    kwDone,         \* TRUE once extractKeywords has returned
    resumeData,     \* the ResumeData handed to the analysis service
    jobDescription, \* the job description handed to analyzeATS
    pending,        \* "none" before the analysis call, "ats" or "general" while it
                    \* waits on its simulated delay, "returned" after it
    analysisResult, \* the AnalysisResult the last call returned, or NoResult
    now,            \* Date.now(), in milliseconds
    steps,          \* how many user events the pages have handled
    storedResumes,  \* localStorage "saved_resumes", parsed
    storedPublicResumes, \* localStorage "public_resumes", parsed
    savedResumes,   \* React state: the saved resumes as last listed
    publicResumes,  \* React state: the public resumes as last listed
    currentResumeId, \* React state: id of the saved resume being edited, or null
    resumeName,     \* React state: the name typed in the save and share dialogs
    shareUrl,       \* React state: the URL of the share created last, or ""
    isAnalyzing,    \* React state: TRUE while analyzeResume is at work
    callArgs,       \* the arguments the waiting analysis call was given
    shareSeq,       \* how many share ids generateShareId has produced
    page,           \* state of the public page: publicResume, loading, error
    lastEvent,      \* the handler that handled the last user event
    serviceCall     \* the last direct call of a storage or sharing method: its
                    \* name, the id it was given and what it returned

appVars ==
    <<now, steps, storedResumes, storedPublicResumes, savedResumes, publicResumes,
      currentResumeId, resumeName, shareUrl, isAnalyzing, callArgs, shareSeq, page,
      lastEvent, serviceCall>>

vars ==
    <<text, keywords, kwDone, resumeData, jobDescription, pending, analysisResult,
      now, steps, storedResumes, storedPublicResumes, savedResumes, publicResumes,
      currentResumeId, resumeName, shareUrl, isAnalyzing, callArgs, shareSeq, page,
      lastEvent, serviceCall>>

-----------------------------------------------------------------------------
(* Bounds of the input sets.                                               *)

MaxWords == 22
MaxNoise == 1
MaxExperience == 2
MaxEducation == 1
MaxSkills == 10

-----------------------------------------------------------------------------
(* Characters and the JavaScript string primitives the service uses.       *)

Min(a, b) == IF a < b THEN a ELSE b
Max(a, b) == IF a > b THEN a ELSE b

Char(s, i) == SubSeq(s, i, i)

UpperCase == "ABCDEFGHIJKLMNOPQRSTUVWXYZ"
LowerCase == "abcdefghijklmnopqrstuvwxyz"
UpperSet == {Char(UpperCase, i) : i \in 1..Len(UpperCase)}
LowerSet == {Char(LowerCase, i) : i \in 1..Len(LowerCase)}
DigitSet == {"0", "1", "2", "3", "4", "5", "6", "7", "8", "9"}

\* \w of a JavaScript regular expression: [A-Za-z0-9_]
WordChars == UpperSet \cup LowerSet \cup DigitSet \cup {"_"}

\* \s of a JavaScript regular expression (the ASCII part of it)
WhiteSpace == {" ", "\t", "\n", "\f", "\r"}

lowerOf == [c \in UpperSet |->
               Char(LowerCase, CHOOSE i \in 1..Len(UpperCase) : Char(UpperCase, i) = c)]

\* The string made of f applied to each character of s[lo..hi], where f is
\* one of the two character maps below (which = "lower" or "punct").
RECURSIVE mapChars(_, _, _, _)
mapChars(which, s, lo, hi) ==
    IF lo > hi THEN ""
    ELSE IF lo = hi THEN
        LET c == Char(s, lo)
        IN  IF which = "lower"
            THEN (IF c \in UpperSet THEN lowerOf[c] ELSE c)
            ELSE (IF c \notin WordChars /\ c \notin WhiteSpace THEN " " ELSE c)
    ELSE LET mid == (lo + hi) \div 2
         IN  mapChars(which, s, lo, mid) \o mapChars(which, s, mid + 1, hi)

\* String.prototype.toLowerCase
toLowerCase(s) == mapChars("lower", s, 1, Len(s))

\* s.replace(/[^\w\s]/g, " ")
replaceNonWord(s) == mapChars("punct", s, 1, Len(s))

\* The least index >= i of s holding a character that is (want = TRUE) or is
\* not (want = FALSE) white space; Len(s) + 1 when there is none.
RECURSIVE nextIndex(_, _, _)
nextIndex(s, i, want) ==
    IF i > Len(s) THEN Len(s) + 1
    ELSE IF (Char(s, i) \in WhiteSpace) = want THEN i
    ELSE nextIndex(s, i + 1, want)

\* s.split(/\s+/): the pieces between maximal runs of white space, the empty
\* pieces before a leading run and after a trailing run included.
RECURSIVE splitFrom(_, _)
splitFrom(s, start) ==
    LET sp == nextIndex(s, start, TRUE)
    IN  IF sp > Len(s) THEN <<SubSeq(s, start, Len(s))>>
        ELSE <<SubSeq(s, start, sp - 1)>> \o splitFrom(s, nextIndex(s, sp, FALSE))

splitWhitespace(s) == splitFrom(s, 1)

\* String.prototype.includes
includes(s, sub) ==
    \E i \in 0..(Len(s) - Len(sub)) : SubSeq(s, i + 1, i + Len(sub)) = sub

\* Array.prototype.slice(0, n)
slice(arr, n) == SubSeq(arr, 1, Min(n, Len(arr)))

\* Array.prototype.indexOf, 1-based; 0 when absent
indexOf(arr, x) ==
    IF \E i \in 1..Len(arr) : arr[i] = x
    THEN CHOOSE i \in 1..Len(arr) : arr[i] = x /\ \A j \in 1..(i - 1) : arr[j] # x
    ELSE 0

\* Array.prototype.join
RECURSIVE join(_, _)
join(arr, sep) ==
    IF Len(arr) = 0 THEN ""
    ELSE IF Len(arr) = 1 THEN arr[1]
    ELSE arr[1] \o sep \o join(Tail(arr), sep)

-----------------------------------------------------------------------------
(* ResumeAnalysisService.extractKeywords                                   *)

commonWords ==
    { "the", "and", "or", "but", "in", "on", "at", "to", "for", "of", "with",
      "by", "is", "are", "was", "were", "be", "been", "have", "has", "had",
      "do", "does", "did", "will", "would", "could", "should", "may", "might",
      "can", "must", "shall" }

\* .filter((word) => word.length > 2 && !commonWords.has(word))
isSignificant(word) == Len(word) > 2 /\ word \notin commonWords

filterSignificant(arr) == SelectSeq(arr, isSignificant)

\* .filter((word, index, arr) => arr.indexOf(word) === index)
RECURSIVE dedupFrom(_, _)
dedupFrom(arr, i) ==
    IF i > Len(arr) THEN <<>>
    ELSE (IF indexOf(arr, arr[i]) = i THEN <<arr[i]>> ELSE <<>>) \o dedupFrom(arr, i + 1)

filterFirstOccurrence(arr) == dedupFrom(arr, 1)

\* The words of the text that pass the length and stop-word filter, in order.
significantWords(t) ==
    filterSignificant(splitWhitespace(replaceNonWord(toLowerCase(t))))

extractKeywords_keepCase(t) ==
    slice(filterFirstOccurrence(filterSignificant(splitWhitespace(replaceNonWord(t)))), 20)

extractKeywords_sliceFirst(t) ==
    filterFirstOccurrence(slice(significantWords(t), 20))

extractKeywords(t) == slice(filterFirstOccurrence(significantWords(t)), 20)

-----------------------------------------------------------------------------
(* JavaScript numbers, as far as the score computation needs them: an      *)
(* integer, NaN or +Infinity.                                              *)

Num(n) == [kind |-> "number", val |-> n]
NaN == [kind |-> "NaN", val |-> 0]
Infinity == [kind |-> "Infinity", val |-> 0]

roundPercent_truncating(m, n) ==
    IF n = 0 THEN (IF m = 0 THEN NaN ELSE Infinity)
    ELSE Num((100 * m) \div n)

\* Math.round((m / n) * 100) for array lengths m and n.  Math.round rounds
\* halves up; 0 / 0 is NaN and m / 0 is Infinity for m > 0.
roundPercent(m, n) ==
    IF n = 0 THEN (IF m = 0 THEN NaN ELSE Infinity)
    ELSE Num((200 * m + n) \div (2 * n))

\* Math.max(lo, x) and Math.min(hi, x) for an integer lo or hi: NaN if x is.
mathMax(lo, x) ==
    IF x.kind = "NaN" THEN NaN
    ELSE IF x.kind = "Infinity" THEN Infinity
    ELSE Num(Max(lo, x.val))

mathMin(hi, x) ==
    IF x.kind = "NaN" THEN NaN
    ELSE IF x.kind = "Infinity" THEN Num(hi)
    ELSE Num(Min(hi, x.val))

-----------------------------------------------------------------------------
(* The regular expressions of the service.                                 *)

\* /\d+/.test(s)
hasDigits(s) == \E i \in 1..Len(s) : Char(s, i) \in DigitSet

\* /\d+%|\$\d+|\d+\+|increased|decreased|improved|reduced/i.test(s)
matchesQuantifiable(s) ==
    \/ \E i \in 1..(Len(s) - 1) :
          \/ Char(s, i) \in DigitSet /\ Char(s, i + 1) = "%"
          \/ Char(s, i) = "$" /\ Char(s, i + 1) \in DigitSet
          \/ Char(s, i) \in DigitSet /\ Char(s, i + 1) = "+"
    \/ \E w \in {"increased", "decreased", "improved", "reduced"} :
          includes(toLowerCase(s), w)

actionVerbs ==
    { "achieved", "managed", "developed", "led", "created", "implemented",
      "improved", "increased", "reduced", "streamlined" }

\* /^(achieved|managed|...|streamlined)/i.test(s)
startsWithActionVerb(s) ==
    \E v \in actionVerbs : Len(s) >= Len(v) /\ SubSeq(toLowerCase(s), 1, Len(v)) = v

-----------------------------------------------------------------------------
(* ResumeAnalysisService: scoring and suggestions.                         *)

\* jobKeywords.some((jobKeyword) => jobKeyword.includes(keyword) || keyword.includes(jobKeyword))
matchesSomeJobKeyword(keyword, jobKeywords) ==
    \E j \in 1..Len(jobKeywords) :
        includes(jobKeywords[j], keyword) \/ includes(keyword, jobKeywords[j])

calculateATSScore(resumeKeywords, jobKeywords) ==
    LET isMatch(keyword) == matchesSomeJobKeyword(keyword, jobKeywords)
        matches == SelectSeq(resumeKeywords, isMatch)
    IN  mathMin(95, mathMax(45, roundPercent(Len(matches), Len(jobKeywords))))

RECURSIVE sumDescriptionLength(_)
sumDescriptionLength(experience) ==
    IF Len(experience) = 0 THEN 0
    ELSE Len(experience[1].description) + sumDescriptionLength(Tail(experience))

atsSuggestionList(missingKeywords, rd) ==
    LET s1 == IF Len(missingKeywords) > 0
              THEN <<"Include these relevant keywords: "
                         \o join(slice(missingKeywords, 5), ", ")>>
              ELSE <<>>
        s2 == IF rd.personalInfo.summary = ""
              THEN <<"Add a professional summary section to highlight your key qualifications">>
              ELSE <<>>
        hasQuantifiableResults ==
            \E i \in 1..Len(rd.experience) : hasDigits(rd.experience[i].description)
        s3 == IF Len(rd.experience) = 0
              THEN <<"Add work experience with quantifiable achievements">>
              ELSE IF ~hasQuantifiableResults
              THEN <<"Include specific numbers and metrics in your experience descriptions">>
              ELSE <<>>
        s4 == IF Len(rd.skills) < 5
              THEN <<"Add more relevant technical and soft skills">>
              ELSE <<>>
        s5 == <<"Use action verbs to start bullet points (achieved, managed, developed, etc.)",
                "Ensure consistent formatting and remove any typos">>
    IN  s1 \o s2 \o s3 \o s4 \o s5

generateATSSuggestions_capFive(missingKeywords, rd) ==
    slice(atsSuggestionList(missingKeywords, rd), 5)

\* return suggestions.slice(0, 6)
generateATSSuggestions(missingKeywords, rd) ==
    slice(atsSuggestionList(missingKeywords, rd), 6)

generalSuggestionList(rd) ==
    LET summary == rd.personalInfo.summary
        s1 == IF summary = ""
              THEN <<"Add a compelling professional summary that highlights your unique value proposition">>
              ELSE IF Len(summary) < 100
              THEN <<"Expand your professional summary to better showcase your expertise">>
              ELSE <<>>
        \* sum / length < 150
        shortDescriptions ==
            sumDescriptionLength(rd.experience) < 150 * Len(rd.experience)
        hasActionVerbs ==
            \E i \in 1..Len(rd.experience) : startsWithActionVerb(rd.experience[i].description)
        s2 == IF Len(rd.experience) = 0
              THEN <<"Add relevant work experience with specific achievements and responsibilities">>
              ELSE (IF shortDescriptions
                    THEN <<"Provide more detailed descriptions of your accomplishments in each role">>
                    ELSE <<>>)
                   \o (IF ~hasActionVerbs
                       THEN <<"Start experience descriptions with strong action verbs">>
                       ELSE <<>>)
        s3 == IF Len(rd.education) = 0
              THEN <<"Include your educational background and relevant certifications">>
              ELSE <<>>
        s4 == IF Len(rd.skills) < 8
              THEN <<"Add more relevant skills, including both technical and soft skills">>
              ELSE <<>>
        s5 == IF rd.personalInfo.linkedin = ""
              THEN <<"Add your LinkedIn profile to increase professional credibility">>
              ELSE <<>>
        s6 == <<"Tailor your resume for each job application",
                "Keep your resume to 1-2 pages for optimal readability">>
    IN  s1 \o s2 \o s3 \o s4 \o s5 \o s6

generateGeneralSuggestions_uncapped(rd) == generalSuggestionList(rd)

\* return suggestions.slice(0, 6)
generateGeneralSuggestions(rd) == slice(generalSuggestionList(rd), 6)

\* The text analyzeATS extracts the resume keywords from.
resumeText(rd) ==
    join(<<rd.personalInfo.summary>>
         \o [i \in 1..Len(rd.experience) |->
                rd.experience[i].position \o " " \o rd.experience[i].company
                    \o " " \o rd.experience[i].description]
         \o [i \in 1..Len(rd.education) |->
                rd.education[i].degree \o " " \o rd.education[i].field
                    \o " " \o rd.education[i].institution]
         \o [i \in 1..Len(rd.skills) |-> rd.skills[i].name],
         " ")

\* keywordMatches of analyzeATS: the test's second half compares keyword with
\* itself.
isKeywordMatch(keyword, jobKeywords) ==
    \E j \in 1..Len(jobKeywords) :
        includes(jobKeywords[j], keyword) \/ includes(keyword, keyword)

isMissingKeyword_compareBoth(keyword, resumeKeywords) ==
    ~\E r \in 1..Len(resumeKeywords) :
        includes(resumeKeywords[r], keyword) \/ includes(keyword, resumeKeywords[r])

\* missingKeywords of analyzeATS: here too keyword is compared with itself.
isMissingKeyword(keyword, resumeKeywords) ==
    ~\E r \in 1..Len(resumeKeywords) :
        includes(resumeKeywords[r], keyword) \/ includes(keyword, keyword)

atsInsights ==
    << "ATS systems scan for exact keyword matches",
       "Use standard section headings like \"Work Experience\" and \"Education\"",
       "Avoid images, graphics, and complex formatting",
       "Include both acronyms and full terms (e.g., \"AI\" and \"Artificial Intelligence\")" >>

analyzeATS(rd, jd) ==
    LET resumeKeywords == extractKeywords(resumeText(rd))
        jobKeywords == extractKeywords(jd)
        isMatch(keyword) == isKeywordMatch(keyword, jobKeywords)
        isMissing(keyword) == isMissingKeyword(keyword, resumeKeywords)
        keywordMatches == SelectSeq(resumeKeywords, isMatch)
        missingKeywords == slice(SelectSeq(jobKeywords, isMissing), 8)
    IN  [ type |-> "ats",
          score |-> calculateATSScore(resumeKeywords, jobKeywords),
          suggestions |-> generateATSSuggestions(missingKeywords, rd),
          keywordMatches |-> slice(keywordMatches, 10),
          missingKeywords |-> missingKeywords,
          industryInsights |-> atsInsights ]

generalInsights ==
    << "Recruiters spend an average of 6 seconds reviewing each resume",
       "Quantified achievements are 40% more likely to get attention",
       "Tailored resumes have 2x higher callback rates",
       "Professional formatting increases perceived competence by 30%" >>

\* The checks of analyzeGeneral, each a triple <<score delta, strengths
\* pushed, weaknesses pushed>>, in the order of the source.
summaryCheck(rd) ==
    IF rd.personalInfo.summary # "" /\ Len(rd.personalInfo.summary) > 100
    THEN <<10, <<"Strong professional summary">>, <<>>>>
    ELSE <<0, <<>>, <<"Missing or weak professional summary">>>>

experienceCheck(rd) ==
    IF Len(rd.experience) >= 2
    THEN <<15, <<"Good work experience history">>, <<>>>>
    ELSE IF Len(rd.experience) = 1
    THEN <<8, <<>>, <<>>>>
    ELSE <<0, <<>>, <<"Limited work experience">>>>

educationCheck(rd) ==
    IF Len(rd.education) > 0
    THEN <<10, <<"Educational background included">>, <<>>>>
    ELSE <<0, <<>>, <<"No educational information">>>>

skillsCheck(rd) ==
    IF Len(rd.skills) >= 8
    THEN <<10, <<"Comprehensive skills section">>, <<>>>>
    ELSE IF Len(rd.skills) >= 5
    THEN <<5, <<>>, <<>>>>
    ELSE <<0, <<>>, <<"Limited skills listed">>>>

linkedinCheck_pushesWeakness(rd) ==
    IF rd.personalInfo.linkedin # ""
    THEN <<5, <<"Professional online presence">>, <<>>>>
    ELSE <<0, <<>>, <<"No professional online presence">>>>

\* The LinkedIn check has no else branch.
linkedinCheck(rd) ==
    IF rd.personalInfo.linkedin # ""
    THEN <<5, <<"Professional online presence">>, <<>>>>
    ELSE <<0, <<>>, <<>>>>

hasQuantifiableAchievements(rd) ==
    \E i \in 1..Len(rd.experience) : matchesQuantifiable(rd.experience[i].description)

quantifiableCheck(rd) ==
    IF hasQuantifiableAchievements(rd)
    THEN <<10, <<"Quantifiable achievements mentioned">>, <<>>>>
    ELSE <<0, <<>>, <<"Lacks quantifiable results">>>>

generalChecks(rd) ==
    << summaryCheck(rd), experienceCheck(rd), educationCheck(rd),
       skillsCheck(rd), linkedinCheck(rd), quantifiableCheck(rd) >>

RECURSIVE sumDeltas(_)
sumDeltas(checks) ==
    IF Len(checks) = 0 THEN 0 ELSE checks[1][1] + sumDeltas(Tail(checks))

RECURSIVE concatField(_, _)
concatField(checks, k) ==
    IF Len(checks) = 0 THEN <<>> ELSE checks[1][k] \o concatField(Tail(checks), k)

clampGeneralScore_noCeiling(score) == Max(35, score)

\* score = Math.min(95, Math.max(35, score))
clampGeneralScore(score) == Min(95, Max(35, score))

analyzeGeneral(rd) ==
    LET checks == generalChecks(rd)
    IN  [ type |-> "general",
          score |-> Num(clampGeneralScore(60 + sumDeltas(checks))),
          suggestions |-> generateGeneralSuggestions(rd),
          strengths |-> concatField(checks, 2),
          weaknesses |-> concatField(checks, 3),
          industryInsights |-> generalInsights ]

-----------------------------------------------------------------------------
(* Inputs of extractKeywords: texts of up to MaxWords distinct words and   *)
(* up to MaxNoise further tokens placed anywhere among them.               *)

WordPool ==
    << "cat", "dog", "bird", "fish", "lion", "bear", "wolf", "deer", "frog",
       "goat", "hawk", "crab", "duck", "mole", "newt", "orca", "puma", "seal",
       "swan", "toad", "vole", "wasp", "yak", "zebra", "lynx", "ibis" >>

NoiseTokens == { "cat", "CAT", "The", "go", "node.js", "foo_bar", "k8s", "" }

\* Where a noise token may go: after this many words of the text.
NoisePlaces == { 0, 1, 2, 20, 21 }

Separators == { " ", ", \n" }

RECURSIVE insertNoise(_, _, _)
insertNoise(words, places, tokens) ==
    IF Len(places) = 0 THEN words
    ELSE LET p == Min(places[1], Len(words))
             w == SubSeq(words, 1, p) \o <<tokens[1]>> \o SubSeq(words, p + 1, Len(words))
         IN  insertNoise(w, Tail(places), Tail(tokens))

TextInputs ==
    UNION { { join(insertNoise(SubSeq(WordPool, 1, n), places, tokens), sep) :
                n \in 0..MaxWords,
                places \in [1..k -> NoisePlaces],
                tokens \in [1..k -> NoiseTokens],
                sep \in Separators } : k \in 0..MaxNoise }

-----------------------------------------------------------------------------
(* Inputs of the analysis service: resumes of up to MaxExperience          *)
(* experience entries, MaxEducation education entries and MaxSkills        *)
(* skills, and a few job descriptions.                                     *)

\* base followed by dots, n characters in all
RECURSIVE padTo(_, _)
padTo(base, n) == IF Len(base) >= n THEN base ELSE padTo(base \o ".", n)

Summaries ==
    { "", "Python Django", padTo("Backend engineer: Python and SQL.", 100),
      padTo("Backend engineer: Python and SQL.", 101) }

Descriptions ==
    { "", "Increased revenue by 20%", "Led 5 engineers",
      padTo("Managed the Docker rollout", 150) }

SkillPool ==
    << "JavaScript", "React", "SQL", "Python", "Docker", "AWS", "Git", "Linux",
       "CSS", "HTML", "Kafka", "Redis" >>

SkillCounts == { 0, 4, 5, 7, 8, MaxSkills }

JobDescriptions ==
    { "", "  ", "to be or do",
      "Java Spring Boot microservices",
      "Java, React, MySQL & Terraform",
      "Python AWS Git Linux CSS Kubernetes Golang Rust",
      "Python AWS Git Linux CSS Kubernetes Golang Rust Scala Django" }

newExperience(i, description) ==
    [ id |-> i, company |-> "Acme", position |-> "Engineer", startDate |-> "",
      endDate |-> "", current |-> FALSE, description |-> description ]

newEducation(i) ==
    [ id |-> i, institution |-> "MIT", degree |-> "BSc", field |-> "Computer Science",
      startDate |-> "", endDate |-> "", gpa |-> "" ]

newSkill(i, name) == [ id |-> i, name |-> name, category |-> "General" ]

initialResumeData ==
    [ personalInfo |-> [ fullName |-> "", email |-> "", phone |-> "", location |-> "",
                         website |-> "", linkedin |-> "", summary |-> "" ],
      experience |-> <<>>,
      education |-> <<>>,
      skills |-> <<>> ]

ResumeInputs ==
    { [ personalInfo |-> [ initialResumeData.personalInfo EXCEPT
                             !.summary = summary, !.linkedin = linkedin ],
        experience |-> [i \in 1..nExp |-> newExperience(i, IF i = 1 THEN d ELSE "")],
        education |-> [i \in 1..nEdu |-> newEducation(i)],
        skills |-> [i \in 1..nSkills |-> newSkill(i, SkillPool[i])] ] :
        summary \in Summaries,
        linkedin \in {"", "linkedin.com/in/jane"},
        nExp \in 0..MaxExperience,
        d \in Descriptions,
        nEdu \in 0..MaxEducation,
        nSkills \in SkillCounts }

-----------------------------------------------------------------------------
(* State.                                                                  *)

NoResult == [type |-> "none"]
NoResume == [none |-> TRUE]

\* null, where the source has a string or null
null == "null"

\* The public page before its effect has run.
initialPage == [shareId |-> "", publicResume |-> NoResume, loading |-> TRUE, error |-> null]

\* The ResumeBuilder page as first rendered over an empty localStorage.
NoCall == [method |-> "none", id |-> "", returned |-> NoResume]

InitApp ==
    /\ now = 1
    /\ steps = 0
    /\ storedResumes = <<>>
    /\ storedPublicResumes = <<>>
    /\ savedResumes = <<>>
    /\ publicResumes = <<>>
    /\ currentResumeId = null
    /\ resumeName = ""
    /\ shareUrl = ""
    /\ isAnalyzing = FALSE
    /\ callArgs = NoResume
    /\ shareSeq = 0
    /\ page = initialPage
    /\ lastEvent = "none"
    /\ serviceCall = NoCall

InitKeywords ==
    /\ text \in TextInputs
    /\ keywords = <<>>
    /\ kwDone = FALSE
    /\ resumeData = NoResume
    /\ jobDescription = ""
    /\ pending = "none"
    /\ analysisResult = NoResult
    /\ InitApp

\* One call of extractKeywords(text).
ExtractKeywords ==
    /\ ~kwDone
    /\ keywords' = extractKeywords(text)
    /\ kwDone' = TRUE
    /\ UNCHANGED <<text, resumeData, jobDescription, pending, analysisResult>>
    /\ UNCHANGED appVars

NextKeywords == ExtractKeywords

SpecKeywords == InitKeywords /\ [][NextKeywords]_vars

-----------------------------------------------------------------------------
(* The analysis service called once on a resume and a job description.    *)
(* The call first awaits its simulated delay and then computes its result  *)
(* from the arguments it was called with.                                  *)

Init ==
    /\ text = ""
    /\ keywords = <<>>
    /\ kwDone = FALSE
    /\ resumeData \in ResumeInputs
    /\ jobDescription \in JobDescriptions
    /\ pending = "none"
    /\ analysisResult = NoResult
    /\ InitApp

\* analysisService.analyzeATS(resumeData, jobDescription) is called.
CallAnalyzeATS ==
    /\ pending = "none"
    /\ pending' = "ats"
    /\ UNCHANGED <<text, keywords, kwDone, resumeData, jobDescription, analysisResult>>
    /\ UNCHANGED appVars

\* The delay of analyzeATS is over: it computes and returns its result.
ReturnAnalyzeATS ==
    /\ pending = "ats"
    /\ analysisResult' = analyzeATS(resumeData, jobDescription)
    /\ pending' = "returned"
    /\ UNCHANGED <<text, keywords, kwDone, resumeData, jobDescription>>
    /\ UNCHANGED appVars

\* analysisService.analyzeGeneral(resumeData) is called.
CallAnalyzeGeneral ==
    /\ pending = "none"
    /\ pending' = "general"
    /\ UNCHANGED <<text, keywords, kwDone, resumeData, jobDescription, analysisResult>>
    /\ UNCHANGED appVars

\* The delay of analyzeGeneral is over: it computes and returns its result.
ReturnAnalyzeGeneral ==
    /\ pending = "general"
    /\ analysisResult' = analyzeGeneral(resumeData)
    /\ pending' = "returned"
    /\ UNCHANGED <<text, keywords, kwDone, resumeData, jobDescription>>
    /\ UNCHANGED appVars

Next ==
    \/ CallAnalyzeATS
    \/ ReturnAnalyzeATS
    \/ CallAnalyzeGeneral
    \/ ReturnAnalyzeGeneral

Spec == Init /\ [][Next]_vars

-----------------------------------------------------------------------------
(* Properties of the analysis service.                                     *)

ATSReturned == pending = "returned" /\ analysisResult.type = "ats"
GeneralReturned == pending = "returned" /\ analysisResult.type = "general"

resumeKeywordsOf == extractKeywords(resumeText(resumeData))
jobKeywordsOf == extractKeywords(jobDescription)

InRange(score, lo, hi) == score.kind = "number" /\ score.val >= lo /\ score.val <= hi

\* One token contains the other.
Contained(a, b) == includes(a, b) \/ includes(b, a)

StartsWith(s, prefix) == Len(s) >= Len(prefix) /\ SubSeq(s, 1, Len(prefix)) = prefix

HasIncludeSuggestion(result) ==
    \E i \in 1..Len(result.suggestions) :
        StartsWith(result.suggestions[i], "Include these relevant keywords")

\* C1: for every resume and every non-empty job description, the score that
\* analyzeATS returns is a number in [45, 95], also when the job description
\* yields no keywords.
C1_ATSScoreInRange ==
    (ATSReturned /\ jobDescription # "") => InRange(analysisResult.score, 45, 95)

\* C2: when the job description yields zero job keywords, the score that
\* analyzeATS returns is the clamp floor 45.
C2_NoJobKeywordsScoreIsFloor ==
    (ATSReturned /\ jobKeywordsOf = <<>>) => analysisResult.score = Num(45)

\* C3: for every resume, the score that analyzeGeneral returns lies in
\* [35, 95].
C3_GeneralScoreInRange ==
    GeneralReturned => InRange(analysisResult.score, 35, 95)

\* analyzeGeneral has returned for a resume whose unclamped score is above 95.
C3_Witness ==
    /\ GeneralReturned
    /\ 60 + sumDeltas(generalChecks(resumeData)) > 95
    /\ analysisResult.score = Num(95)

\* C4: the suggestions list that analyzeGeneral or analyzeATS returns has at
\* most 6 entries.
C4_SuggestionsAtMostSix ==
    pending = "returned" => Len(analysisResult.suggestions) <= 6

\* analyzeGeneral has returned 6 suggestions for a resume that collects more
\* than 6 of them.
C4_Witness ==
    /\ GeneralReturned
    /\ Len(generalSuggestionList(resumeData)) > 6
    /\ Len(analysisResult.suggestions) = 6

\* C7: for non-empty jobKeywords the ATS score is round(matchCount /
\* |jobKeywords| * 100) clamped to [45, 95], where matchCount is the number of
\* resume keywords that contain, or are contained in, some job keyword.
C7_ATSScoreFormula ==
    (ATSReturned /\ jobKeywordsOf # <<>>) =>
        LET rk == resumeKeywordsOf
            jk == jobKeywordsOf
            n == Len(jk)
            matchCount ==
                Cardinality({i \in 1..Len(rk) :
                                \E j \in 1..n : includes(jk[j], rk[i]) \/ includes(rk[i], jk[j])})
        IN  \E p \in 0..(100 * Len(rk)) :
                \* p is matchCount / n * 100 rounded to the nearest integer, halves up
                /\ 2 * n * p - n <= 200 * matchCount
                /\ 200 * matchCount < 2 * n * p + n
                /\ analysisResult.score =
                       Num(IF p < 45 THEN 45 ELSE IF p > 95 THEN 95 ELSE p)

\* analyzeATS has returned a score strictly inside the range that needed
\* rounding up from a half: 5 matches for 8 job keywords, 62.5, give 63.
C7_Witness ==
    /\ ATSReturned
    /\ Len(jobKeywordsOf) = 8
    /\ analysisResult.score = Num(63)

\* C8: keywordMatches is the first 10 of exactly the resume keywords that the
\* score computation counts as matches.
C8_KeywordMatchesAreScoreMatches ==
    ATSReturned =>
        LET jk == jobKeywordsOf
            counted(keyword) == \E j \in 1..Len(jk) : Contained(jk[j], keyword)
        IN  analysisResult.keywordMatches = slice(SelectSeq(resumeKeywordsOf, counted), 10)

\* C9: missingKeywords is the first 8 job keywords for which no resume
\* keyword satisfies the containment test.
C9_MissingKeywordsAreUnmatched ==
    ATSReturned =>
        LET rk == resumeKeywordsOf
            unmatched(keyword) == ~\E r \in 1..Len(rk) : Contained(rk[r], keyword)
        IN  analysisResult.missingKeywords = slice(SelectSeq(jobKeywordsOf, unmatched), 8)

\* C10 as claimed: analyzeATS returns an empty missingKeywords list for every
\* resume and job description, and never the 'Include these relevant
\* keywords' suggestion.
C10_MissingAlwaysEmpty ==
    ATSReturned =>
        /\ analysisResult.missingKeywords = <<>>
        /\ ~HasIncludeSuggestion(analysisResult)

\* C10 as amended: when the resume yields at least one keyword, analyzeATS
\* returns an empty missingKeywords list and no 'Include these relevant
\* keywords' suggestion; when the resume yields no keyword, missingKeywords
\* is the first 8 job keywords, and the suggestion is made if there is one.
C10_MissingEmptyUnlessNoResumeKeywords ==
    ATSReturned =>
        IF resumeKeywordsOf # <<>>
        THEN /\ analysisResult.missingKeywords = <<>>
             /\ ~HasIncludeSuggestion(analysisResult)
        ELSE /\ analysisResult.missingKeywords = slice(jobKeywordsOf, 8)
             /\ HasIncludeSuggestion(analysisResult) <=> jobKeywordsOf # <<>>

\* analyzeATS has returned no missing keyword for a resume that has keywords,
\* none of them related to the job keyword "spring".
C10_Witness ==
    /\ ATSReturned
    /\ resumeKeywordsOf # <<>>
    /\ \E j \in 1..Len(jobKeywordsOf) :
          /\ jobKeywordsOf[j] = "spring"
          /\ \A r \in 1..Len(resumeKeywordsOf) : ~Contained(resumeKeywordsOf[r], "spring")
    /\ analysisResult.missingKeywords = <<>>

-----------------------------------------------------------------------------
(* Properties of extractKeywords.                                          *)

IsLowerCase(word) == \A i \in 1..Len(word) : Char(word, i) \notin UpperSet

\* C5: extractKeywords returns at most 20 tokens, each of them lowercase,
\* longer than 2 characters, not a stop-word, and occurring once in the list.
C5_KeywordsWellFormed ==
    kwDone =>
        /\ Len(keywords) <= 20
        /\ \A i \in 1..Len(keywords) :
              /\ IsLowerCase(keywords[i])
              /\ Len(keywords[i]) > 2
              /\ keywords[i] \notin commonWords
              /\ \A j \in 1..Len(keywords) : keywords[j] = keywords[i] => j = i

\* extractKeywords has returned 20 tokens for a text of more than 20 words
\* that has capitals in it.
C5_Witness ==
    /\ kwDone
    /\ Len(keywords) = 20
    /\ Len(splitWhitespace(text)) > 20
    /\ ~IsLowerCase(text)

\* C6: the result of extractKeywords is the first 20 distinct tokens that
\* pass the filters, in the order of their first occurrence in the input: a
\* repeated token takes none of the 20 places.
C6_FirstTwentyDistinctInOrder ==
    kwDone =>
        LET words == significantWords(text)
            distinct == {words[i] : i \in 1..Len(words)}
            first(w) == CHOOSE i \in 1..Len(words) :
                            words[i] = w /\ \A j \in 1..(i - 1) : words[j] # w
        IN  /\ Len(keywords) = Min(20, Cardinality(distinct))
            /\ \A i \in 1..Len(keywords) : keywords[i] \in distinct
            /\ \A i, j \in 1..Len(keywords) :
                  i < j => first(keywords[i]) < first(keywords[j])
            /\ \A w \in distinct :
                  (\E i \in 1..Len(keywords) : first(w) < first(keywords[i]))
                      => \E i \in 1..Len(keywords) : keywords[i] = w

\* extractKeywords has returned 20 tokens for a text whose first 20 filtered
\* words hold a repeated one.
C6_Witness ==
    /\ kwDone
    /\ Len(keywords) = 20
    /\ LET words == significantWords(text)
       IN  \E i, j \in 1..20 : i < j /\ j <= Len(words) /\ words[i] = words[j]

-----------------------------------------------------------------------------
(* analyzeGeneral alone, over resumes that take every branch of its six    *)
(* checks: summaries just below, at and above the 100-character mark, and  *)
(* every skill count up to MaxSkills.                                     *)

GeneralSummaries ==
    { "", padTo("Backend engineer: Python and SQL.", 99),
      padTo("Backend engineer: Python and SQL.", 100),
      padTo("Backend engineer: Python and SQL.", 101),
      padTo("Backend engineer: Python and SQL.", 150) }

GeneralDescriptions ==
    { "", "increased revenue by 20%", "Led 5 engineers", "Saved $5 per unit" }

GeneralResumeInputs ==
    { [ personalInfo |-> [ initialResumeData.personalInfo EXCEPT
                             !.summary = summary, !.linkedin = linkedin ],
        experience |-> [i \in 1..nExp |-> newExperience(i, IF i = nExp THEN d ELSE "")],
        education |-> [i \in 1..nEdu |-> newEducation(i)],
        skills |-> [i \in 1..nSkills |-> newSkill(i, SkillPool[i])] ] :
        summary \in GeneralSummaries,
        linkedin \in {"", "linkedin.com/in/jane"},
        nExp \in 0..MaxExperience,
        d \in GeneralDescriptions,
        nEdu \in 0..MaxEducation,
        nSkills \in 0..MaxSkills }

InitGeneral ==
    /\ text = ""
    /\ keywords = <<>>
    /\ kwDone = FALSE
    /\ resumeData \in GeneralResumeInputs
    /\ jobDescription = ""
    /\ pending = "none"
    /\ analysisResult = NoResult
    /\ InitApp

NextGeneral ==
    \/ CallAnalyzeGeneral
    \/ ReturnAnalyzeGeneral

SpecGeneral == InitGeneral /\ [][NextGeneral]_vars

\* C11: the general score is 60 plus the deltas, clamped to [35,95]: +10 for
\* a summary that is present and at least 100 characters long (exactly 100
\* included), +15 for two or more experience entries or +8 for exactly one,
\* +10 for any education entry, +10 for eight or more skills or +5 for five
\* to seven, +5 for a LinkedIn value, +10 for an experience description that
\* matches the quantifiable-result pattern.
C11_GeneralScoreFormula ==
    GeneralReturned =>
        LET rd == resumeData
            summary == rd.personalInfo.summary
            d1 == IF summary # "" /\ Len(summary) >= 100 THEN 10 ELSE 0
            d2 == IF Len(rd.experience) >= 2 THEN 15
                  ELSE IF Len(rd.experience) = 1 THEN 8 ELSE 0
            d3 == IF Len(rd.education) > 0 THEN 10 ELSE 0
            d4 == IF Len(rd.skills) >= 8 THEN 10
                  ELSE IF Len(rd.skills) >= 5 THEN 5 ELSE 0
            d5 == IF rd.personalInfo.linkedin # "" THEN 5 ELSE 0
            d6 == IF \E i \in 1..Len(rd.experience) :
                        matchesQuantifiable(rd.experience[i].description)
                  THEN 10 ELSE 0
        IN  analysisResult.score = Num(Min(95, Max(35, 60 + d1 + d2 + d3 + d4 + d5 + d6)))

\* The number of checks of analyzeGeneral that append nothing for this
\* resume: exactly one experience entry, five to seven skills, no LinkedIn.
silentChecks(rd) ==
    (IF Len(rd.experience) = 1 THEN 1 ELSE 0)
        + (IF Len(rd.skills) >= 5 /\ Len(rd.skills) < 8 THEN 1 ELSE 0)
        + (IF rd.personalInfo.linkedin = "" THEN 1 ELSE 0)

\* C12 as stated: each of the six checks appends exactly one string, so
\* strengths and weaknesses hold six strings together.
C12_StrengthsPlusWeaknessesIsSix ==
    GeneralReturned =>
        Len(analysisResult.strengths) + Len(analysisResult.weaknesses) = 6

\* C12: each of the six checks appends at most one string, to strengths or
\* to weaknesses; the checks for exactly one experience entry, for five to
\* seven skills and for a missing LinkedIn value append nothing, so the two
\* lists hold six strings less the number of those cases, between 3 and 6.
C12_StrengthsPlusWeaknessesCount ==
    GeneralReturned =>
        LET total == Len(analysisResult.strengths) + Len(analysisResult.weaknesses)
        IN  /\ total = 6 - silentChecks(resumeData)
            /\ total >= 3
            /\ total <= 6
            /\ \A i \in 1..Len(analysisResult.strengths) :
                  \A j \in 1..Len(analysisResult.weaknesses) :
                      analysisResult.strengths[i] # analysisResult.weaknesses[j]

\* analyzeGeneral has returned for a resume with one experience entry, six
\* skills and no LinkedIn value: only three strings were appended.
C12_Witness ==
    /\ GeneralReturned
    /\ Len(resumeData.experience) = 1
    /\ Len(resumeData.skills) = 6
    /\ resumeData.personalInfo.linkedin = ""
    /\ Len(analysisResult.strengths) + Len(analysisResult.weaknesses) = 3

\* C13 as stated: for the empty resume analyzeGeneral returns score 35 and
\* one weakness for each of summary, experience, education, skills, LinkedIn.
C13_EmptyResumeScoresFloor ==
    (GeneralReturned /\ resumeData = initialResumeData) =>
        /\ analysisResult.score = Num(35)
        /\ Len(analysisResult.weaknesses) = 5

\* C13: for the empty resume analyzeGeneral returns the base score 60 (no
\* delta applies and the clamp leaves 60 alone), no strengths, and five
\* weaknesses, in this order: summary, experience, education, skills and
\* the lack of quantifiable results; the missing LinkedIn value adds none.
C13_EmptyResumeScoresBase ==
    (GeneralReturned /\ resumeData = initialResumeData) =>
        /\ analysisResult.score = Num(60)
        /\ analysisResult.strengths = <<>>
        /\ analysisResult.weaknesses =
              << "Missing or weak professional summary",
                 "Limited work experience",
                 "No educational information",
                 "Limited skills listed",
                 "Lacks quantifiable results" >>

\* analyzeGeneral has returned for the empty resume.
C13_Witness ==
    /\ GeneralReturned
    /\ resumeData = initialResumeData
    /\ analysisResult.weaknesses # <<>>

\* The resume of C14: a 150-character summary, two experience entries of
\* which one says "increased revenue by 20%", one education entry, ten
\* skills and a LinkedIn value.
IsFullResume(rd) ==
    /\ Len(rd.personalInfo.summary) = 150
    /\ Len(rd.experience) = 2
    /\ \E i \in 1..2 : includes(rd.experience[i].description, "increased revenue by 20%")
    /\ Len(rd.education) = 1
    /\ Len(rd.skills) = 10
    /\ rd.personalInfo.linkedin # ""

\* C14: for that resume analyzeGeneral returns score 95 (60 + 60, clamped),
\* exactly six strengths and no weaknesses.
C14_FullResumeScoresCeiling ==
    (GeneralReturned /\ IsFullResume(resumeData)) =>
        /\ analysisResult.score = Num(95)
        /\ Len(analysisResult.strengths) = 6
        /\ analysisResult.weaknesses = <<>>

\* analyzeGeneral has returned for the resume of C14.
C14_Witness ==
    /\ GeneralReturned
    /\ IsFullResume(resumeData)
    /\ analysisResult.score.kind = "number"

\* C15: the suggestions of analyzeATS are, in this order, the applicable
\* ones of the missing-keyword callout, the summary-missing callout, one of
\* the no-experience and no-numbers callouts, and the low-skill callout
\* (fewer than 5 skills), followed by the two fixed tips; the list holds at
\* most 6 entries and the two tips are its last two entries for every
\* input, so the cap of 6 never cuts anything off.
C15_ATSSuggestionsOrderAndTips ==
    ATSReturned =>
        LET rd == resumeData
            missing == analysisResult.missingKeywords
            s == analysisResult.suggestions
            n == Len(s)
            callouts ==
                (IF Len(missing) > 0
                 THEN <<"Include these relevant keywords: "
                            \o join(slice(missing, 5), ", ")>>
                 ELSE <<>>)
                \o (IF rd.personalInfo.summary = ""
                    THEN <<"Add a professional summary section to highlight your key qualifications">>
                    ELSE <<>>)
                \o (IF Len(rd.experience) = 0
                    THEN <<"Add work experience with quantifiable achievements">>
                    ELSE IF \A i \in 1..Len(rd.experience) :
                                ~hasDigits(rd.experience[i].description)
                    THEN <<"Include specific numbers and metrics in your experience descriptions">>
                    ELSE <<>>)
                \o (IF Len(rd.skills) < 5
                    THEN <<"Add more relevant technical and soft skills">>
                    ELSE <<>>)
        IN  /\ n >= 2
            /\ n <= 6
            /\ s[n - 1] = "Use action verbs to start bullet points (achieved, managed, developed, etc.)"
            /\ s[n] = "Ensure consistent formatting and remove any typos"
            /\ SubSeq(s, 1, n - 2) = callouts

\* analyzeATS has returned six suggestions: all four callouts apply and the
\* two tips still close the list.
C15_Witness ==
    /\ ATSReturned
    /\ Len(analysisResult.suggestions) = 6
    /\ Len(analysisResult.missingKeywords) > 0
    /\ Len(resumeData.skills) < 5

-----------------------------------------------------------------------------
(* The ResumeBuilder page: primitives of its handlers and services.        *)

\* How many user events a run handles, and how far the clock runs.
MaxSteps == 5
MaxClock == 2

RECURSIVE trimStart(_)
trimStart(s) ==
    IF Len(s) > 0 /\ Char(s, 1) \in WhiteSpace
    THEN trimStart(SubSeq(s, 2, Len(s)))
    ELSE s

RECURSIVE trimEnd(_)
trimEnd(s) ==
    IF Len(s) > 0 /\ Char(s, Len(s)) \in WhiteSpace
    THEN trimEnd(SubSeq(s, 1, Len(s) - 1))
    ELSE s

trim_omitted(s) == s

\* String.prototype.trim
trim(s) == trimEnd(trimStart(s))

\* Number.prototype.toString, for the non-negative integers of Date.now()
RECURSIVE toString(_)
toString(n) ==
    IF n < 10
    THEN Char("0123456789", n + 1)
    ELSE toString(n \div 10) \o Char("0123456789", (n % 10) + 1)

\* JSON.parse(JSON.stringify(resumeData)): a ResumeData holds strings,
\* booleans and arrays of objects of these, all of which JSON keeps.
jsonClone(rd) ==
    [ personalInfo |-> [f \in DOMAIN rd.personalInfo |-> rd.personalInfo[f]],
      experience |-> [i \in 1..Len(rd.experience) |-> rd.experience[i]],
      education |-> [i \in 1..Len(rd.education) |-> rd.education[i]],
      skills |-> [i \in 1..Len(rd.skills) |-> rd.skills[i]] ]

\* resumes.findIndex((r) => r[field] === value); 0 stands for -1
findIndex(resumes, field, value) ==
    IF \E i \in 1..Len(resumes) : resumes[i][field] = value
    THEN CHOOSE i \in 1..Len(resumes) :
             /\ resumes[i][field] = value
             /\ \A j \in 1..(i - 1) : resumes[j][field] # value
    ELSE 0

\* sorted.sort((a, b) => b[field] - a[field]) with r put into a sorted array:
\* the sort is stable, r goes behind the entries that are not older.
insertSorted(sorted, r, field) ==
    LET k == Cardinality({i \in 1..Len(sorted) : sorted[i][field] >= r[field]})
    IN  SubSeq(sorted, 1, k) \o <<r>> \o SubSeq(sorted, k + 1, Len(sorted))

RECURSIVE sortDescBy(_, _)
sortDescBy(arr, field) ==
    IF Len(arr) = 0
    THEN <<>>
    ELSE insertSorted(sortDescBy(SubSeq(arr, 1, Len(arr) - 1), field), arr[Len(arr)], field)

-----------------------------------------------------------------------------
(* LocalStorageResumeService over the parsed array of "saved_resumes".     *)
(* createdAt and updatedAt hold the clock's milliseconds, which the ISO    *)
(* string of the source carries unchanged.                                 *)

saveResume(resumes, name, rd, t) ==
    Append(resumes, [ id |-> toString(t), name |-> name, resumeData |-> jsonClone(rd),
                      createdAt |-> t, updatedAt |-> t ])

loadResume(resumes, id) ==
    LET index == findIndex(resumes, "id", id)
    IN  IF index # 0 THEN resumes[index].resumeData ELSE NoResume

getAllResumes(resumes) == sortDescBy(resumes, "updatedAt")

deleteResume(resumes, id) ==
    LET keep(r) == r.id # id
    IN  SelectSeq(resumes, keep)

updateResume_upserts(resumes, id, name, rd, t) ==
    LET index == findIndex(resumes, "id", id)
    IN  IF index # 0
        THEN [resumes EXCEPT ![index] =
                 [@ EXCEPT !.name = name, !.resumeData = jsonClone(rd), !.updatedAt = t]]
        ELSE Append(resumes, [ id |-> id, name |-> name, resumeData |-> jsonClone(rd),
                               createdAt |-> t, updatedAt |-> t ])

updateResume(resumes, id, name, rd, t) ==
    LET index == findIndex(resumes, "id", id)
    IN  IF index # 0
        THEN [resumes EXCEPT ![index] =
                 [@ EXCEPT !.name = name, !.resumeData = jsonClone(rd), !.updatedAt = t]]
        ELSE resumes

-----------------------------------------------------------------------------
(* LocalStoragePublicSharingService over the parsed array of               *)
(* "public_resumes".                                                       *)

\* Two runs of 13 random base-36 digits: the n-th id produced is taken to
\* differ from all the ids produced before it.
generateShareId(n) == "share" \o toString(n)

createPublicResume(resumes, shareId, name, rd, t) ==
    Append(resumes, [ id |-> toString(t), shareId |-> shareId, name |-> name,
                      resumeData |-> jsonClone(rd), createdAt |-> t,
                      isActive |-> TRUE, viewCount |-> 0 ])

getPublicResume_ignoresActive(resumes, shareId) ==
    LET index == findIndex(resumes, "shareId", shareId)
    IN  IF index # 0 THEN resumes[index] ELSE NoResume

\* resumes.find((r) => r.shareId === shareId && r.isActive) || null
getPublicResume(resumes, shareId) ==
    LET found == {i \in 1..Len(resumes) : resumes[i].shareId = shareId /\ resumes[i].isActive}
    IN  IF found # {}
        THEN resumes[CHOOSE i \in found : \A j \in found : i <= j]
        ELSE NoResume

getAllPublicResumes(resumes) == sortDescBy(resumes, "createdAt")

updatePublicResume(resumes, shareId, name, rd) ==
    LET index == findIndex(resumes, "shareId", shareId)
    IN  IF index # 0
        THEN [resumes EXCEPT ![index] = [@ EXCEPT !.name = name, !.resumeData = jsonClone(rd)]]
        ELSE resumes

deletePublicResume(resumes, shareId) ==
    LET keep(r) == r.shareId # shareId
    IN  SelectSeq(resumes, keep)

incrementViewCount_everyShare(resumes, shareId) ==
    [i \in 1..Len(resumes) |-> [resumes[i] EXCEPT !.viewCount = @ + 1]]

incrementViewCount(resumes, shareId) ==
    LET index == findIndex(resumes, "shareId", shareId)
    IN  IF index # 0
        THEN [resumes EXCEPT ![index].viewCount = @ + 1]
        ELSE resumes

togglePublicResumeStatus(resumes, shareId, isActive) ==
    LET index == findIndex(resumes, "shareId", shareId)
    IN  IF index # 0
        THEN [resumes EXCEPT ![index].isActive = isActive]
        ELSE resumes

-----------------------------------------------------------------------------
(* ResumeBuilder: the editing handlers.  A handler runs to its end before  *)
(* the next event is handled; the ids it is called with are those of the   *)
(* entries the page shows.                                                 *)

\* What the user types or picks in the forms.
PersonalEdits == { <<"fullName", "Jane Doe">>, <<"summary", "Engineer">> }
ExperienceEdits == { <<"description", "Led 5 engineers">> }
EducationEdits == { <<"degree", "BSc">> }
SkillEntries == { <<"  ", "">>, <<" Go ", "Technical">> }
ResumeNames == { " ", "CV", "Draft" }
JobTexts == { "  ", "Java React" }

\* One more user event is handled, by this handler.
UserStep(handler) ==
    /\ steps < MaxSteps
    /\ steps' = steps + 1
    /\ lastEvent' = handler

keywordVars == <<text, keywords, kwDone, serviceCall>>
analysisVars == <<jobDescription, pending, analysisResult, isAnalyzing, callArgs>>
savedVars == <<storedResumes, savedResumes, currentResumeId, resumeName>>
shareVars == <<storedPublicResumes, publicResumes, shareUrl, shareSeq>>

\* What an editing handler leaves alone.
editFrame == <<keywordVars, analysisVars, savedVars, shareVars, now, page>>

\* Time passes.
Tick ==
    /\ now < MaxClock
    /\ now' = now + 1
    /\ UNCHANGED <<keywordVars, analysisVars, savedVars, shareVars, resumeData, steps, page,
                   lastEvent>>

updatePersonalInfo_writesStored ==
    \E e \in PersonalEdits :
        /\ UserStep("updatePersonalInfo")
        /\ resumeData' = [resumeData EXCEPT !.personalInfo[e[1]] = e[2]]
        /\ storedResumes' =
              [i \in 1..Len(storedResumes) |->
                  IF storedResumes[i].id = currentResumeId
                  THEN [storedResumes[i] EXCEPT !.resumeData = resumeData']
                  ELSE storedResumes[i]]
        /\ UNCHANGED <<keywordVars, analysisVars, savedResumes, currentResumeId, resumeName,
                       shareVars, now, page>>

updatePersonalInfo ==
    \E e \in PersonalEdits :
        /\ UserStep("updatePersonalInfo")
        /\ resumeData' = [resumeData EXCEPT !.personalInfo[e[1]] = e[2]]
        /\ UNCHANGED editFrame

newExp(t) ==
    [ id |-> toString(t), company |-> "", position |-> "", startDate |-> "",
      endDate |-> "", current |-> FALSE, description |-> "" ]

addExperience ==
    /\ UserStep("addExperience")
    /\ resumeData' = [resumeData EXCEPT !.experience = Append(@, newExp(now))]
    /\ UNCHANGED editFrame

\* entries.map((x) => (x.id === id ? { ...x, [field]: value } : x))
mapUpdate(entries, id, field, value) ==
    [i \in 1..Len(entries) |->
        IF entries[i].id = id THEN [entries[i] EXCEPT ![field] = value] ELSE entries[i]]

\* entries.filter((x) => x.id !== id)
filterOut(entries, id) ==
    LET keep(x) == x.id # id
    IN  SelectSeq(entries, keep)

updateExperience ==
    \E i \in 1..Len(resumeData.experience), e \in ExperienceEdits :
        /\ UserStep("updateExperience")
        /\ resumeData' = [resumeData EXCEPT !.experience =
                             mapUpdate(@, resumeData.experience[i].id, e[1], e[2])]
        /\ UNCHANGED editFrame

removeExperience ==
    \E i \in 1..Len(resumeData.experience) :
        /\ UserStep("removeExperience")
        /\ resumeData' = [resumeData EXCEPT !.experience =
                             filterOut(@, resumeData.experience[i].id)]
        /\ UNCHANGED editFrame

newEdu(t) ==
    [ id |-> toString(t), institution |-> "", degree |-> "", field |-> "",
      startDate |-> "", endDate |-> "", gpa |-> "" ]

addEducation ==
    /\ UserStep("addEducation")
    /\ resumeData' = [resumeData EXCEPT !.education = Append(@, newEdu(now))]
    /\ UNCHANGED editFrame

updateEducation ==
    \E i \in 1..Len(resumeData.education), e \in EducationEdits :
        /\ UserStep("updateEducation")
        /\ resumeData' = [resumeData EXCEPT !.education =
                             mapUpdate(@, resumeData.education[i].id, e[1], e[2])]
        /\ UNCHANGED editFrame

removeEducation ==
    \E i \in 1..Len(resumeData.education) :
        /\ UserStep("removeEducation")
        /\ resumeData' = [resumeData EXCEPT !.education =
                             filterOut(@, resumeData.education[i].id)]
        /\ UNCHANGED editFrame

\* if (!name.trim()) return; otherwise the trimmed name is appended.
addSkill ==
    \E e \in SkillEntries :
        /\ UserStep("addSkill")
        /\ resumeData' =
              IF trim(e[1]) = ""
              THEN resumeData
              ELSE [resumeData EXCEPT !.skills =
                       Append(@, [ id |-> toString(now), name |-> trim(e[1]),
                                   category |-> IF e[2] = "" THEN "General" ELSE e[2] ])]
        /\ UNCHANGED editFrame

removeSkill ==
    \E i \in 1..Len(resumeData.skills) :
        /\ UserStep("removeSkill")
        /\ resumeData' = [resumeData EXCEPT !.skills = filterOut(@, resumeData.skills[i].id)]
        /\ UNCHANGED editFrame

handleNewResume ==
    /\ UserStep("handleNewResume")
    /\ resumeData' = initialResumeData
    /\ currentResumeId' = null
    /\ resumeName' = ""
    /\ analysisResult' = NoResult
    /\ UNCHANGED <<keywordVars, jobDescription, pending, isAnalyzing, callArgs,
                   storedResumes, savedResumes, shareVars, now, page>>

-----------------------------------------------------------------------------
(* ResumeBuilder: the save, load and delete handlers.                      *)

\* onChange of the name field of the save and share dialogs
setResumeName ==
    \E name \in ResumeNames :
        /\ UserStep("setResumeName")
        /\ resumeName' = name
        /\ UNCHANGED <<keywordVars, analysisVars, storedResumes, savedResumes,
                       currentResumeId, shareVars, resumeData, now, page>>

handleSaveResume_syncsShares ==
    /\ UserStep("handleSaveResume")
    /\ trim(resumeName) # ""
    /\ storedResumes' =
          IF currentResumeId # null
          THEN updateResume(storedResumes, currentResumeId, resumeName, resumeData, now)
          ELSE saveResume(storedResumes, resumeName, resumeData, now)
    /\ currentResumeId' = IF currentResumeId # null THEN currentResumeId ELSE toString(now)
    /\ savedResumes' = getAllResumes(storedResumes')
    /\ resumeName' = ""
    /\ storedPublicResumes' =
          [i \in 1..Len(storedPublicResumes) |->
              IF storedPublicResumes[i].name = resumeName
              THEN updatePublicResume(storedPublicResumes, storedPublicResumes[i].shareId,
                                      resumeName, resumeData)[i]
              ELSE storedPublicResumes[i]]
    /\ publicResumes' = getAllPublicResumes(storedPublicResumes')
    /\ UNCHANGED <<keywordVars, analysisVars, shareUrl, shareSeq, resumeData, now, page>>

handleSaveResume ==
    /\ UserStep("handleSaveResume")
    /\ IF trim(resumeName) = ""
       THEN UNCHANGED savedVars
       ELSE /\ IF currentResumeId # null /\ currentResumeId # ""
               THEN /\ storedResumes' =
                          updateResume(storedResumes, currentResumeId, resumeName, resumeData, now)
                    /\ UNCHANGED currentResumeId
               ELSE /\ storedResumes' = saveResume(storedResumes, resumeName, resumeData, now)
                    /\ currentResumeId' = toString(now)
            /\ savedResumes' = getAllResumes(storedResumes')
            /\ resumeName' = ""
    /\ UNCHANGED <<keywordVars, analysisVars, shareVars, resumeData, now, page>>

\* The Load button of a listed resume; it is disabled for the current one.
handleLoadResume ==
    \E k \in 1..Len(savedResumes) :
        LET id == savedResumes[k].id
            loadedData == loadResume(storedResumes, id)
            index == findIndex(savedResumes, "id", id)
        IN  /\ id # currentResumeId
            /\ UserStep("handleLoadResume")
            /\ IF loadedData # NoResume
               THEN /\ resumeData' = loadedData
                    /\ currentResumeId' = id
                    /\ resumeName' = IF index # 0 THEN savedResumes[index].name ELSE resumeName
               ELSE UNCHANGED <<resumeData, currentResumeId, resumeName>>
            /\ UNCHANGED <<keywordVars, analysisVars, storedResumes, savedResumes,
                           shareVars, now, page>>

handleDeleteResume_keepsCurrent ==
    \E k \in 1..Len(savedResumes) :
        LET id == savedResumes[k].id
        IN  /\ UserStep("handleDeleteResume")
            /\ storedResumes' = deleteResume(storedResumes, id)
            /\ savedResumes' = getAllResumes(storedResumes')
            /\ UNCHANGED <<currentResumeId, resumeName>>
            /\ UNCHANGED <<keywordVars, analysisVars, shareVars, resumeData, now, page>>

handleDeleteResume ==
    \E k \in 1..Len(savedResumes) :
        LET id == savedResumes[k].id
        IN  /\ UserStep("handleDeleteResume")
            /\ storedResumes' = deleteResume(storedResumes, id)
            /\ savedResumes' = getAllResumes(storedResumes')
            /\ IF currentResumeId = id
               THEN currentResumeId' = null /\ resumeName' = ""
               ELSE UNCHANGED <<currentResumeId, resumeName>>
            /\ UNCHANGED <<keywordVars, analysisVars, shareVars, resumeData, now, page>>

-----------------------------------------------------------------------------
(* ResumeBuilder: the sharing handlers.                                    *)

origin == "https://resume.example"

\* The Create button is shown while no share URL has been made.
handleCreatePublicShare ==
    /\ shareUrl = ""
    /\ UserStep("handleCreatePublicShare")
    /\ IF trim(resumeName) = ""
       THEN UNCHANGED shareVars
       ELSE LET shareId == generateShareId(shareSeq + 1)
            IN  /\ shareSeq' = shareSeq + 1
                /\ storedPublicResumes' =
                      createPublicResume(storedPublicResumes, shareId, resumeName, resumeData, now)
                /\ shareUrl' = origin \o "/resume/" \o shareId
                /\ publicResumes' = getAllPublicResumes(storedPublicResumes')
    /\ UNCHANGED <<keywordVars, analysisVars, savedVars, resumeData, now, page>>

handleDeletePublicResume ==
    \E k \in 1..Len(publicResumes) :
        /\ UserStep("handleDeletePublicResume")
        /\ storedPublicResumes' =
              deletePublicResume(storedPublicResumes, publicResumes[k].shareId)
        /\ publicResumes' = getAllPublicResumes(storedPublicResumes')
        /\ UNCHANGED <<keywordVars, analysisVars, savedVars, shareUrl, shareSeq,
                       resumeData, now, page>>

\* The switch of a listed share asks for the opposite of the status shown.
handleTogglePublicResumeStatus ==
    \E k \in 1..Len(publicResumes) :
        /\ UserStep("handleTogglePublicResumeStatus")
        /\ storedPublicResumes' =
              togglePublicResumeStatus(storedPublicResumes, publicResumes[k].shareId,
                                       ~publicResumes[k].isActive)
        /\ publicResumes' = getAllPublicResumes(storedPublicResumes')
        /\ UNCHANGED <<keywordVars, analysisVars, savedVars, shareUrl, shareSeq,
                       resumeData, now, page>>

\* The page is opened anew: its state starts over and its effect lists
\* what localStorage holds; a waiting analysis call is dropped with the page.
ResumeBuilder ==
    /\ UserStep("ResumeBuilder")
    /\ resumeData' = initialResumeData
    /\ jobDescription' = ""
    /\ analysisResult' = NoResult
    /\ isAnalyzing' = FALSE
    /\ pending' = "none"
    /\ callArgs' = NoResume
    /\ currentResumeId' = null
    /\ resumeName' = ""
    /\ shareUrl' = ""
    /\ savedResumes' = getAllResumes(storedResumes)
    /\ publicResumes' = getAllPublicResumes(storedPublicResumes)
    /\ UNCHANGED <<keywordVars, storedResumes, storedPublicResumes, shareSeq, now, page>>

-----------------------------------------------------------------------------
(* The public page /resume/[shareId], open in another tab.                 *)

\* A visitor may hold the link of any share made so far, or a wrong link.
KnownShareIds == {generateShareId(n) : n \in 1..shareSeq} \cup {"nosuchshare"}

pageAwaitsIncrement == page.loading /\ page.publicResume # NoResume

\* The page's effect up to its second await: getPublicResume has answered.
loadPublicResume ==
    \E shareId \in KnownShareIds :
        LET resume == getPublicResume(storedPublicResumes, shareId)
        IN  /\ ~pageAwaitsIncrement
            /\ UserStep("loadPublicResume")
            /\ page' = IF resume # NoResume
                       THEN [ shareId |-> shareId, publicResume |-> resume,
                              loading |-> TRUE, error |-> null ]
                       ELSE [ shareId |-> shareId, publicResume |-> NoResume,
                              loading |-> FALSE,
                              error |-> "Resume not found or no longer available" ]
            /\ UNCHANGED <<keywordVars, analysisVars, savedVars, shareVars, resumeData, now>>

\* The rest of the effect: incrementViewCount, then setLoading(false).
loadPublicResumeCounts ==
    /\ pageAwaitsIncrement
    /\ storedPublicResumes' = incrementViewCount(storedPublicResumes, page.shareId)
    /\ page' = [page EXCEPT !.loading = FALSE]
    /\ UNCHANGED <<keywordVars, analysisVars, savedVars, publicResumes, shareUrl, shareSeq,
                   resumeData, now, steps, lastEvent>>

-----------------------------------------------------------------------------
(* ResumeBuilder: analyzeResume.  The buttons are disabled while           *)
(* isAnalyzing; the handler tests the job description itself, and is       *)
(* modelled for every job description.                                     *)

setJobDescription ==
    \E jd \in JobTexts :
        /\ UserStep("setJobDescription")
        /\ jobDescription' = jd
        /\ UNCHANGED <<keywordVars, pending, analysisResult, isAnalyzing, callArgs,
                       savedVars, shareVars, resumeData, now, page>>

\* analyzeResume(type) up to its await: for "ats" and a blank job
\* description it returns at once, otherwise the service call waits.
analyzeResume(type) ==
    /\ ~isAnalyzing
    /\ UserStep("analyzeResume:" \o type)
    /\ analysisResult' = NoResult
    /\ IF type = "ats" /\ trim(jobDescription) = ""
       THEN /\ isAnalyzing' = FALSE
            /\ UNCHANGED <<pending, callArgs>>
       ELSE /\ isAnalyzing' = TRUE
            /\ pending' = type
            /\ callArgs' = [resumeData |-> resumeData, jobDescription |-> jobDescription]
    /\ UNCHANGED <<keywordVars, jobDescription, savedVars, shareVars, resumeData, now, page>>

analyzeResumeATS == analyzeResume("ats")
analyzeResumeGeneral == analyzeResume("general")

analyzeResumeReturns_storesResult ==
    /\ isAnalyzing
    /\ analysisResult' =
          IF pending = "ats"
          THEN analyzeATS(callArgs.resumeData, callArgs.jobDescription)
          ELSE analyzeGeneral(callArgs.resumeData)
    /\ storedResumes' =
          [i \in 1..Len(storedResumes) |->
              [ id |-> storedResumes[i].id, name |-> storedResumes[i].name,
                resumeData |-> storedResumes[i].resumeData,
                createdAt |-> storedResumes[i].createdAt,
                updatedAt |-> storedResumes[i].updatedAt,
                analysisResult |-> analysisResult' ]]
    /\ isAnalyzing' = FALSE
    /\ pending' = "none"
    /\ callArgs' = NoResume
    /\ UNCHANGED <<keywordVars, jobDescription, savedResumes, currentResumeId, resumeName,
                   shareVars, resumeData, now, steps, page, lastEvent>>

analyzeResumeReturns_readsCurrent ==
    /\ isAnalyzing
    /\ analysisResult' =
          IF pending = "ats"
          THEN analyzeATS(resumeData, jobDescription)
          ELSE analyzeGeneral(resumeData)
    /\ isAnalyzing' = FALSE
    /\ pending' = "none"
    /\ callArgs' = NoResume
    /\ UNCHANGED <<keywordVars, jobDescription, savedVars, shareVars, resumeData, now,
                   steps, page, lastEvent>>

\* The service call returns: setAnalysisResult(result), setIsAnalyzing(false).
analyzeResumeReturns ==
    /\ isAnalyzing
    /\ analysisResult' =
          IF pending = "ats"
          THEN analyzeATS(callArgs.resumeData, callArgs.jobDescription)
          ELSE analyzeGeneral(callArgs.resumeData)
    /\ isAnalyzing' = FALSE
    /\ pending' = "none"
    /\ callArgs' = NoResume
    /\ UNCHANGED <<keywordVars, jobDescription, savedVars, shareVars, resumeData, now,
                   steps, page, lastEvent>>

-----------------------------------------------------------------------------
(* The specifications of the pages.                                        *)

InitPages ==
    /\ text = ""
    /\ keywords = <<>>
    /\ kwDone = FALSE
    /\ resumeData = initialResumeData
    /\ jobDescription = ""
    /\ pending = "none"
    /\ analysisResult = NoResult
    /\ InitApp

Edit ==
    \/ updatePersonalInfo
    \/ addExperience
    \/ updateExperience
    \/ removeExperience
    \/ addEducation
    \/ updateEducation
    \/ removeEducation
    \/ addSkill
    \/ removeSkill

\* Editing, saving and sharing, with the public page in another tab.
NextApp ==
    \/ Tick
    \/ Edit
    \/ handleNewResume
    \/ setResumeName
    \/ handleSaveResume
    \/ handleLoadResume
    \/ handleDeleteResume
    \/ handleCreatePublicShare
    \/ handleDeletePublicResume
    \/ handleTogglePublicResumeStatus
    \/ ResumeBuilder
    \/ loadPublicResume
    \/ loadPublicResumeCounts

SpecApp == InitPages /\ [][NextApp]_vars

\* Editing and analysing.
NextAnalyze ==
    \/ Edit
    \/ handleNewResume
    \/ setJobDescription
    \/ analyzeResumeATS
    \/ analyzeResumeGeneral
    \/ analyzeResumeReturns

SpecAnalyze == InitPages /\ [][NextAnalyze]_vars

-----------------------------------------------------------------------------
(* Properties of the pages.                                                *)

IsBlank(s) == \A i \in 1..Len(s) : Char(s, i) \in WhiteSpace

EditHandlers ==
    { "updatePersonalInfo", "addExperience", "updateExperience", "removeExperience",
      "addEducation", "updateEducation", "removeEducation", "addSkill", "removeSkill",
      "handleNewResume" }

\* C17: analyzeResume("ats") with an empty or whitespace-only job description
\* aborts silently: no call of analyzeATS waits afterwards, analysisResult
\* is null (neither a real result nor the fallback of score 75) and
\* isAnalyzing is false when the handler returns; and whenever a call of
\* analyzeATS waits, the job description it was given is not blank.
C17_BlankJobDescriptionAborts ==
    /\ [](pending = "ats" => ~IsBlank(callArgs.jobDescription))
    /\ [][(analyzeResumeATS /\ IsBlank(jobDescription)) =>
              /\ analysisResult' = NoResult
              /\ isAnalyzing' = FALSE
              /\ pending' = "none"
              /\ callArgs' = NoResume]_vars

\* analyzeResume("ats") has just been handled for a job description of
\* blanks only.
C17_Witness ==
    /\ lastEvent = "analyzeResume:ats"
    /\ jobDescription = "  "
    /\ ~isAnalyzing
    /\ analysisResult = NoResult

\* C19: a stored resume is a copy of its own.  A step of any handler but
\* handleSaveResume (the editing handlers and New Resume among them) leaves
\* every stored record as it was, or removes it; and the data
\* handleLoadResume puts on the page equals the stored record's, which the
\* edits that follow do not touch.
C19_StoredResumeIsACopy ==
    /\ [](lastEvent = "handleLoadResume" =>
             \E i \in 1..Len(storedResumes) :
                 /\ storedResumes[i].id = currentResumeId
                 /\ storedResumes[i].resumeData = resumeData)
    /\ [][(lastEvent' # "handleSaveResume" \/ steps' = steps) =>
              \A j \in 1..Len(storedResumes') :
                  \E i \in 1..Len(storedResumes) : storedResumes'[j] = storedResumes[i]]_vars
    /\ [][(steps' # steps /\ lastEvent' \in EditHandlers) =>
              storedResumes' = storedResumes]_vars

\* An editing handler has just run on a saved resume, and the page's data
\* now differs from the stored record's.
C19_Witness ==
    /\ lastEvent \in EditHandlers \ {"handleNewResume"}
    /\ \E i \in 1..Len(storedResumes) :
          /\ storedResumes[i].id = currentResumeId
          /\ storedResumes[i].resumeData # resumeData

\* C20: a share's snapshot does not change.  Over every step of the pages
\* (editing, saving or updating the draft, loading a draft, New Resume,
\* toggling the share, viewing it) a share that is stored before and after
\* the step keeps its name and its resumeData.
C20_ShareSnapshotImmutable ==
    [][\A i \in 1..Len(storedPublicResumes) :
           \A j \in 1..Len(storedPublicResumes') :
               storedPublicResumes[i].shareId = storedPublicResumes'[j].shareId =>
                   /\ storedPublicResumes'[j].name = storedPublicResumes[i].name
                   /\ storedPublicResumes'[j].resumeData = storedPublicResumes[i].resumeData
                   /\ storedPublicResumes'[j].id = storedPublicResumes[i].id]_vars

\* A share was made of a draft, the draft was edited and saved under the
\* same name, and the share was switched off: the share still holds the
\* data it was made of.
C20_Witness ==
    \E i \in 1..Len(storedPublicResumes) :
        \E j \in 1..Len(storedResumes) :
            /\ storedResumes[j].name = storedPublicResumes[i].name
            /\ storedResumes[j].resumeData # storedPublicResumes[i].resumeData
            /\ ~storedPublicResumes[i].isActive

\* No two entries of the sequence share an id.
IdsDistinct(entries) ==
    \A i, j \in 1..Len(entries) : i # j => entries[i].id # entries[j].id

\* C21: generated ids are unique within their sequence: after any run of
\* the add and remove handlers, two adds within one millisecond included,
\* no two entries of resumeData.experience share an id, nor two of
\* education, nor two of skills, nor two saved resumes made by saveResume.
C21_GeneratedIdsUnique ==
    /\ IdsDistinct(resumeData.experience)
    /\ IdsDistinct(resumeData.education)
    /\ IdsDistinct(resumeData.skills)
    /\ IdsDistinct(storedResumes)

-----------------------------------------------------------------------------
(* Analysing a resume that has been saved and shared.                      *)

NextAnalyzeStored ==
    \/ updatePersonalInfo
    \/ setResumeName
    \/ handleSaveResume
    \/ handleCreatePublicShare
    \/ setJobDescription
    \/ analyzeResumeATS
    \/ analyzeResumeGeneral
    \/ analyzeResumeReturns

SpecAnalyzeStored == InitPages /\ [][NextAnalyzeStored]_vars

\* C22: an analysis is never persisted.  A step of analyzeResume, be it the
\* call (which may abort at once) or the return of the service, leaves
\* saved_resumes, public_resumes and the editor's resumeData as they were;
\* and a stored record holds nothing but its own fields.
C22_AnalysisNeverPersisted ==
    /\ [](/\ \A i \in 1..Len(storedResumes) :
                DOMAIN storedResumes[i] = {"id", "name", "resumeData", "createdAt", "updatedAt"}
          /\ \A i \in 1..Len(storedPublicResumes) :
                DOMAIN storedPublicResumes[i] =
                    {"id", "shareId", "name", "resumeData", "createdAt", "isActive", "viewCount"})
    /\ [][((steps' # steps /\ lastEvent' \in {"analyzeResume:ats", "analyzeResume:general"})
              \/ isAnalyzing' # isAnalyzing \/ analysisResult' # analysisResult) =>
              /\ storedResumes' = storedResumes
              /\ storedPublicResumes' = storedPublicResumes
              /\ resumeData' = resumeData]_vars

\* An analysis has returned its result while a saved resume and a share
\* were stored.
C22_Witness ==
    /\ ~isAnalyzing
    /\ analysisResult # NoResult
    /\ Len(storedResumes) > 0
    /\ Len(storedPublicResumes) > 0

-----------------------------------------------------------------------------
\* C23: every character that is neither a letter nor a digit separates
\* tokens, so each keyword extractKeywords returns is made of lowercase
\* letters and digits alone and never holds an underscore.
C23_KeywordsAlphanumeric ==
    kwDone =>
        \A i \in 1..Len(keywords) :
            \A j \in 1..Len(keywords[i]) :
                Char(keywords[i], j) \in LowerSet \cup DigitSet

-----------------------------------------------------------------------------
\* C24: whenever currentResumeId is not null, saved_resumes holds a resume
\* with that id, after any run of the save, load, delete and new-resume
\* handlers (deleting the current resume resets currentResumeId to null).
C24_CurrentResumeIsStored ==
    currentResumeId # null =>
        \E i \in 1..Len(storedResumes) : storedResumes[i].id = currentResumeId

\* A saved resume has been loaded back after New Resume and is the current
\* one.
C24_Witness ==
    /\ lastEvent = "handleLoadResume"
    /\ currentResumeId # null
    /\ Len(storedResumes) > 0

-----------------------------------------------------------------------------
(* The builder opened over a localStorage that already holds one saved     *)
(* resume, written in the millisecond the page opens in: the state the     *)
(* page is in after a save and a reload.                                   *)

InitSaved ==
    /\ text = ""
    /\ keywords = <<>>
    /\ kwDone = FALSE
    /\ resumeData = initialResumeData
    /\ jobDescription = ""
    /\ pending = "none"
    /\ analysisResult = NoResult
    /\ now = 1
    /\ steps = 0
    /\ storedResumes = saveResume(<<>>, "CV", initialResumeData, 1)
    /\ storedPublicResumes = <<>>
    /\ savedResumes = getAllResumes(storedResumes)
    /\ publicResumes = <<>>
    /\ currentResumeId = null
    /\ resumeName = ""
    /\ shareUrl = ""
    /\ isAnalyzing = FALSE
    /\ callArgs = NoResume
    /\ shareSeq = 0
    /\ page = initialPage
    /\ lastEvent = "none"
    /\ serviceCall = NoCall

NextSaved ==
    \/ Tick
    \/ updatePersonalInfo
    \/ handleNewResume
    \/ setResumeName
    \/ handleSaveResume
    \/ handleLoadResume
    \/ handleDeleteResume

SpecSaved == InitSaved /\ [][NextSaved]_vars

\* The record is the one the save of (name, rd) at time t leaves of old.
IsUpdateOf(record, old, name, rd, t) ==
    /\ record.id = old.id
    /\ record.createdAt = old.createdAt
    /\ record.name = name
    /\ record.resumeData = rd
    /\ record.updatedAt = t

\* C25: a save with a blank name changes nothing.  The first successful
\* save, made while currentResumeId is null, adds exactly one record holding
\* the name and the resumeData and sets currentResumeId to its id.  A save
\* made while currentResumeId is set leaves the number of records as it is
\* and updates name, resumeData and updatedAt of that one record, the record
\* the first save created, keeping its id and createdAt and every other
\* record.
C25_SaveCreatesThenUpdatesInPlace ==
    [][(steps' # steps /\ lastEvent' = "handleSaveResume") =>
          IF IsBlank(resumeName)
          THEN UNCHANGED <<storedResumes, savedResumes, currentResumeId, resumeName, resumeData>>
          ELSE IF currentResumeId = null
          THEN /\ Len(storedResumes') = Len(storedResumes) + 1
               /\ SubSeq(storedResumes', 1, Len(storedResumes)) = storedResumes
               /\ storedResumes'[Len(storedResumes')].id = currentResumeId'
               /\ storedResumes'[Len(storedResumes')].name = resumeName
               /\ storedResumes'[Len(storedResumes')].resumeData = resumeData
               /\ currentResumeId' # null
          ELSE /\ currentResumeId' = currentResumeId
               /\ Len(storedResumes') = Len(storedResumes)
               /\ Cardinality({i \in 1..Len(storedResumes) :
                                  storedResumes[i].id = currentResumeId}) = 1
               /\ \A i \in 1..Len(storedResumes) :
                     IF storedResumes[i].id = currentResumeId
                     THEN IsUpdateOf(storedResumes'[i], storedResumes[i],
                                     resumeName, resumeData, now)
                     ELSE storedResumes'[i] = storedResumes[i]]_vars

-----------------------------------------------------------------------------
\* public_resumes holds a share of this shareId that is switched on.
HasActiveShare(shareId) ==
    \E i \in 1..Len(storedPublicResumes) :
        /\ storedPublicResumes[i].shareId = shareId
        /\ storedPublicResumes[i].isActive

NotFound == "Resume not found or no longer available"

\* C26: getPublicResume returns a record only for a shareId whose share
\* exists and is active, and null otherwise.  The public page opened for a
\* deleted or deactivated share ends in the "Resume not found" error state:
\* it holds no resume, is not loading, and public_resumes is left as it was.
\* Switching a share off or on changes its isActive alone, so a reactivated
\* share is served again with the resumeData and viewCount it had.
C26_OnlyActiveSharesAreServed ==
    /\ [](\A shareId \in KnownShareIds :
             LET resume == getPublicResume(storedPublicResumes, shareId)
             IN  IF HasActiveShare(shareId)
                 THEN resume # NoResume /\ resume.shareId = shareId /\ resume.isActive
                 ELSE resume = NoResume)
    /\ [][(steps' # steps /\ lastEvent' = "loadPublicResume"
              /\ ~HasActiveShare(page'.shareId)) =>
              /\ page'.error = NotFound
              /\ page'.publicResume = NoResume
              /\ ~page'.loading
              /\ storedPublicResumes' = storedPublicResumes]_vars
    /\ [][(steps' # steps /\ lastEvent' = "handleTogglePublicResumeStatus") =>
              /\ Len(storedPublicResumes') = Len(storedPublicResumes)
              /\ \A i \in 1..Len(storedPublicResumes) :
                    storedPublicResumes'[i] =
                        [storedPublicResumes[i] EXCEPT
                            !.isActive = storedPublicResumes'[i].isActive]]_vars

\* A share that was viewed once has been switched off, and the public page
\* opened for it shows the error and no resume; the count is still 1.
C26_Witness ==
    /\ page.error = NotFound
    /\ page.publicResume = NoResume
    /\ \E i \in 1..Len(storedPublicResumes) :
          /\ storedPublicResumes[i].shareId = page.shareId
          /\ ~storedPublicResumes[i].isActive
          /\ storedPublicResumes[i].viewCount = 1

-----------------------------------------------------------------------------
(* The builder opened over a localStorage that already holds one public    *)
(* share: the state the page is in after a share was made and the page     *)
(* reloaded.  The public page is open in another tab.                      *)

InitShared ==
    /\ text = ""
    /\ keywords = <<>>
    /\ kwDone = FALSE
    /\ resumeData = initialResumeData
    /\ jobDescription = ""
    /\ pending = "none"
    /\ analysisResult = NoResult
    /\ now = 1
    /\ steps = 0
    /\ storedResumes = <<>>
    /\ storedPublicResumes =
          createPublicResume(<<>>, generateShareId(1), "CV", initialResumeData, 1)
    /\ savedResumes = <<>>
    /\ publicResumes = getAllPublicResumes(storedPublicResumes)
    /\ currentResumeId = null
    /\ resumeName = ""
    /\ shareUrl = ""
    /\ isAnalyzing = FALSE
    /\ callArgs = NoResume
    /\ shareSeq = 1
    /\ page = initialPage
    /\ lastEvent = "none"
    /\ serviceCall = NoCall

NextShared ==
    \/ Tick
    \/ setResumeName
    \/ handleCreatePublicShare
    \/ handleDeletePublicResume
    \/ handleTogglePublicResumeStatus
    \/ handleNewResume
    \/ loadPublicResume
    \/ loadPublicResumeCounts

SpecShared == InitShared /\ [][NextShared]_vars

\* C27: the viewCount of a share is 0 when the share is created and goes up
\* by exactly 1 with each successful load of the public page for its
\* shareId; no other step changes it: not a load for another share, not a
\* switch of its or another share's status, not the creation or deletion of
\* another share.  So it never decreases and counts the successful loads.
C27_ViewCountCountsLoads ==
    [][\A j \in 1..Len(storedPublicResumes') :
           LET share == storedPublicResumes'[j]
               before == {i \in 1..Len(storedPublicResumes) :
                             storedPublicResumes[i].shareId = share.shareId}
               loaded == /\ pageAwaitsIncrement
                         /\ ~pageAwaitsIncrement'
                         /\ page.shareId = share.shareId
           IN  IF before = {}
               THEN share.viewCount = 0
               ELSE \A i \in before :
                       share.viewCount =
                           storedPublicResumes[i].viewCount + (IF loaded THEN 1 ELSE 0)]_vars

\* A share has been loaded twice, and a second share made after that has
\* no view.
C27_Witness ==
    /\ lastEvent = "handleCreatePublicShare"
    /\ \E i, j \in 1..Len(storedPublicResumes) :
          /\ storedPublicResumes[i].viewCount = 2
          /\ storedPublicResumes[j].viewCount = 0

-----------------------------------------------------------------------------
\* C28: whenever shareUrl is not empty, it is the link of a share that
\* public_resumes holds and that is active, after any run of the create,
\* delete and toggle handlers of the shares and of New Resume.
C28_ShareUrlRefersToActiveShare ==
    shareUrl # "" =>
        \E i \in 1..Len(storedPublicResumes) :
            /\ shareUrl = origin \o "/resume/" \o storedPublicResumes[i].shareId
            /\ storedPublicResumes[i].isActive

-----------------------------------------------------------------------------
(* The methods of LocalStorageResumeService and of                         *)
(* LocalStoragePublicSharingService called one after another, with the ids *)
(* of stored records and with ids that no record has.                      *)

ServiceResumeIds == {"1", "2", "nosuchid"}
ServiceShareIds == {generateShareId(1), generateShareId(2), "nosuchshare"}

editedResumeData == [initialResumeData EXCEPT !.personalInfo.fullName = "Jane Doe"]

\* What localStorage may hold when the methods are called.
StoredResumeInputs ==
    { <<>>,
      saveResume(<<>>, "CV", initialResumeData, 1),
      saveResume(saveResume(<<>>, "CV", initialResumeData, 1), "Draft", editedResumeData, 2) }

StoredPublicResumeInputs ==
    { <<>>,
      createPublicResume(<<>>, generateShareId(1), "CV", initialResumeData, 1),
      togglePublicResumeStatus(
          createPublicResume(
              createPublicResume(<<>>, generateShareId(1), "CV", initialResumeData, 1),
              generateShareId(2), "Draft", editedResumeData, 2),
          generateShareId(2), FALSE) }

InitServices ==
    /\ text = ""
    /\ keywords = <<>>
    /\ kwDone = FALSE
    /\ resumeData = initialResumeData
    /\ jobDescription = ""
    /\ pending = "none"
    /\ analysisResult = NoResult
    /\ now = MaxClock
    /\ steps = 0
    /\ storedResumes \in StoredResumeInputs
    /\ storedPublicResumes \in StoredPublicResumeInputs
    /\ savedResumes = <<>>
    /\ publicResumes = <<>>
    /\ currentResumeId = null
    /\ resumeName = ""
    /\ shareUrl = ""
    /\ isAnalyzing = FALSE
    /\ callArgs = NoResume
    /\ shareSeq = 2
    /\ page = initialPage
    /\ lastEvent = "none"
    /\ serviceCall = NoCall

\* One more call is made, of this method with this id, and returns this.
Called(method, id, returned) ==
    /\ steps < MaxSteps
    /\ steps' = steps + 1
    /\ serviceCall' = [method |-> method, id |-> id, returned |-> returned]
    /\ UNCHANGED <<text, keywords, kwDone, resumeData, analysisVars, savedResumes,
                   currentResumeId, resumeName, publicResumes, shareUrl, shareSeq, now,
                   page, lastEvent>>

callLoadResume ==
    \E id \in ServiceResumeIds :
        /\ Called("loadResume", id, loadResume(storedResumes, id))
        /\ UNCHANGED <<storedResumes, storedPublicResumes>>

callUpdateResume ==
    \E id \in ServiceResumeIds :
        /\ Called("updateResume", id, NoResume)
        /\ storedResumes' = updateResume(storedResumes, id, "Renamed", editedResumeData, now)
        /\ UNCHANGED storedPublicResumes

callDeleteResume ==
    \E id \in ServiceResumeIds :
        /\ Called("deleteResume", id, NoResume)
        /\ storedResumes' = deleteResume(storedResumes, id)
        /\ UNCHANGED storedPublicResumes

callGetPublicResume ==
    \E shareId \in ServiceShareIds :
        /\ Called("getPublicResume", shareId, getPublicResume(storedPublicResumes, shareId))
        /\ UNCHANGED <<storedResumes, storedPublicResumes>>

callUpdatePublicResume ==
    \E shareId \in ServiceShareIds :
        /\ Called("updatePublicResume", shareId, NoResume)
        /\ storedPublicResumes' =
              updatePublicResume(storedPublicResumes, shareId, "Renamed", editedResumeData)
        /\ UNCHANGED storedResumes

callDeletePublicResume ==
    \E shareId \in ServiceShareIds :
        /\ Called("deletePublicResume", shareId, NoResume)
        /\ storedPublicResumes' = deletePublicResume(storedPublicResumes, shareId)
        /\ UNCHANGED storedResumes

callIncrementViewCount ==
    \E shareId \in ServiceShareIds :
        /\ Called("incrementViewCount", shareId, NoResume)
        /\ storedPublicResumes' = incrementViewCount(storedPublicResumes, shareId)
        /\ UNCHANGED storedResumes

callTogglePublicResumeStatus ==
    \E shareId \in ServiceShareIds, isActive \in BOOLEAN :
        /\ Called("togglePublicResumeStatus", shareId, NoResume)
        /\ storedPublicResumes' =
              togglePublicResumeStatus(storedPublicResumes, shareId, isActive)
        /\ UNCHANGED storedResumes

NextServices ==
    \/ callLoadResume
    \/ callUpdateResume
    \/ callDeleteResume
    \/ callGetPublicResume
    \/ callUpdatePublicResume
    \/ callDeletePublicResume
    \/ callIncrementViewCount
    \/ callTogglePublicResumeStatus

SpecServices == InitServices /\ [][NextServices]_vars

ResumeMethods == {"loadResume", "updateResume", "deleteResume"}

\* No stored record has the id the method was called with.
IsUnknownId(method, id) ==
    IF method \in ResumeMethods
    THEN \A i \in 1..Len(storedResumes) : storedResumes[i].id # id
    ELSE \A i \in 1..Len(storedPublicResumes) : storedPublicResumes[i].shareId # id

\* C29: a storage method called with an id that no stored record has is a
\* silent no-op: updateResume, deleteResume, togglePublicResumeStatus,
\* incrementViewCount, updatePublicResume and deletePublicResume leave
\* saved_resumes and public_resumes as they were, and loadResume and
\* getPublicResume return null.
C29_UnknownIdIsNoOp ==
    [][(steps' # steps /\ IsUnknownId(serviceCall'.method, serviceCall'.id)) =>
          /\ storedResumes' = storedResumes
          /\ storedPublicResumes' = storedPublicResumes
          /\ serviceCall'.returned = NoResume]_vars

\* updateResume has been called with an id that none of the stored resumes
\* has, after a call that did change a stored share.
C29_Witness ==
    /\ serviceCall.method = "updateResume"
    /\ serviceCall.id = "nosuchid"
    /\ Len(storedResumes) = 2
    /\ \E i \in 1..Len(storedPublicResumes) : storedPublicResumes[i].viewCount > 0

-----------------------------------------------------------------------------
\* The step that ends a waiting analysis: isAnalyzing goes from true to
\* false.  Of the steps of NextAnalyze it is analyzeResumeReturns alone.
analysisSettles == isAnalyzing /\ isAnalyzing' = FALSE

\* The timer of the simulated delay fires, so a waiting service call
\* returns: weak fairness of the return step.
SpecAnalyzeFair == SpecAnalyze /\ WF_isAnalyzing(analysisSettles)

\* C30: every run of analyzeResume ends with isAnalyzing false: at once
\* when the ATS analysis is asked for a blank job description, and
\* eventually when the service call waits.  While isAnalyzing is true,
\* analysisResult is null.  The result shown on success is the one computed
\* from resumeData and jobDescription as they were when the analysis
\* started, whatever was edited in between.
C30_AnalysisEndsWithResultOfStart ==
    /\ [](isAnalyzing => analysisResult = NoResult)
    /\ isAnalyzing ~> ~isAnalyzing
    /\ [][/\ (steps' # steps /\ lastEvent' = "analyzeResume:ats" /\ IsBlank(jobDescription))
                 => ~isAnalyzing'
          /\ (~isAnalyzing /\ isAnalyzing')
                 => callArgs' = [resumeData |-> resumeData, jobDescription |-> jobDescription]
          /\ (isAnalyzing /\ isAnalyzing')
                 => callArgs' = callArgs /\ pending' = pending
          /\ (isAnalyzing /\ ~isAnalyzing')
                 => analysisResult' =
                        IF pending = "ats"
                        THEN analyzeATS(callArgs.resumeData, callArgs.jobDescription)
                        ELSE analyzeGeneral(callArgs.resumeData)]_vars

\* An ATS analysis has returned after the resume or the job description was
\* changed during the delay: the result is not the one of the present
\* inputs.
C30_Witness ==
    /\ ~isAnalyzing
    /\ analysisResult # NoResult
    /\ analysisResult.type = "ats"
    /\ analysisResult # analyzeATS(resumeData, jobDescription)

=============================================================================
